---- MODULE Spec2Model ----
(***************************************************************************)
(* The two notebooks of the repository, run top to bottom in one kernel:   *)
(*   "P7"  notebooks/Practical 7 Interactive Maps.ipynb                     *)
(*   "P2"  the GeoPandas / vector data practical (unnamed/part_000)         *)
(* A notebook is a sequence of code cells, a cell a sequence of statements.*)
(* The kernel executes one statement at a time; every statement that calls *)
(* into a library may raise, which ends the cell and the run.              *)
(***************************************************************************)
EXTENDS Integers, Sequences, FiniteSets, TLC

VARIABLES
    nb,        \* the notebook being run
    pc,        \* [cell, stmt, it]: the statement to execute next (it: loop index)
    status,    \* "running" | "done" | "error"
    env,       \* the kernel namespace: variable name -> object id (0: unbound)
    envStart,  \* env as it was when the current cell started
    heap,      \* the objects, by id (index)
    fs,        \* the paths written so far, each with the routine that wrote it
    reads,     \* the input files read so far, each with the reader used
    muts,      \* the in-place mutations so far: [by, obj, madeIn]
    pending,   \* threads, timers, callbacks or tasks started and not finished
    raised     \* the pending exception: [cell, stmt, op] or NoError

vars == <<nb, pc, status, env, envStart, heap, fs, reads, muts, pending, raised>>

-----------------------------------------------------------------------------
(* Bounds of the model *)

\* points of a point GeoPackage, over all its multipoint features
MaxPts == 1
\* rows of the LSOA boundary table
MaxLsoa == 2
\* rows of the IMD table
MaxImd == 1
\* rows of the states shapefile and of the cities csv
MaxRows == 2

-----------------------------------------------------------------------------
(* Program constants *)

\* the CRS the Southampton GeoPackages are stored in
EPSG_BNG == 27700
\* the CRS passed to every to_crs call
EPSG_WGS84 == 4326
\* the least and most deprived deciles of the IMD table
MinDecile == 1
MaxDecile == 10

Deciles == MinDecile..MaxDecile
LsoaCodes == {"E01", "E02"}

NoError == [cell |-> 0, stmt |-> 0, op |-> "none"]

\* one statement: the operation, the variable it binds (""), the variable it
\* reads (""), a literal argument and its line in the source file
St(op, tgt, src, arg, line) ==
    [op |-> op, tgt |-> tgt, src |-> src, arg |-> arg, line |-> line]

OutputHtml == "../test_folium_map.html"

-----------------------------------------------------------------------------
(* Practical 7, cell by cell.  Map arguments: [tiles, zoom, scale]. *)

Southampton == <<50934358, -1399073>>   \* location=[50.934358, -1.399073], in 1e-6 degrees

MapArgs(tiles, zoom, scale) == [tiles |-> tiles, zoom |-> zoom, scale |-> scale]

P7_LoadPackages ==
    << St("import", "", "", "geopandas", 38),
       St("import", "", "", "folium", 39),
       St("import", "", "", "matplotlib.pyplot", 40) >>

P7_SimpleBasemap ==
    << St("Map", "m", "", MapArgs("OpenStreetMap", 15, FALSE), 64),
       St("show", "", "m", "", 69) >>

P7_ChangingBasemap ==
    << St("Map", "m", "", MapArgs("Stamen watercolor", 15, FALSE), 97),
       St("show", "", "m", "", 103) >>

P7_AddBasemapOption ==
    << St("TileLayer_add_to", "", "m", "stamentoner", 122),
       St("LayerControl_add_to", "", "m", "", 125),
       St("show", "", "m", "", 127) >>

P7_LoadSupermarkets ==
    << St("read_file", "smkt", "", "../data/soton_smkts.gpkg", 148),
       St("explode", "smkt", "smkt", "", 150),
       St("to_crs", "smkt", "smkt", EPSG_WGS84, 152),
       St("inspect", "", "smkt", "head", 154) >>

P7_LoadFastFood ==
    << St("read_file", "ff", "", "../data/soton_fastfood.gpkg", 164),
       St("explode", "ff", "ff", "", 166),
       St("to_crs", "ff", "ff", EPSG_WGS84, 168),
       St("inspect", "", "ff", "head", 170) >>

P7_Conversion ==
    << St("GeoJson", "ff_gj", "ff", "Fast Food", 189) >>

P7_FreshMap ==
    << St("Map", "m", "", MapArgs("OpenStreetMap", 12, TRUE), 201),
       St("add_to", "", "ff_gj", "", 207),
       St("LayerControl_add_to", "", "m", "", 210),
       St("show", "", "m", "", 213) >>

P7_MultipleLayers ==
    << St("Map", "m", "", MapArgs("OpenStreetMap", 12, TRUE), 232),
       St("add_to", "", "ff_gj", "", 238),
       St("for_markers", "marker", "smkt", "green", 241),
       St("show", "", "m", "", 247) >>

P7_ImportMarkerCluster ==
    << St("import", "", "", "folium.plugins.MarkerCluster", 267) >>

P7_StartBaseMap ==
    << St("Map", "m", "", MapArgs("OpenStreetMap", 12, TRUE), 277) >>

P7_Locations ==
    << St("zip_yx", "locns", "ff", "", 291) >>

P7_MarkerClusters ==
    << St("MarkerCluster", "mc", "locns", "", 301),
       St("add_to", "", "mc", "", 304),
       St("show", "", "m", "", 307) >>

P7_ImportHeatMap ==
    << St("import", "", "", "folium.plugins.HeatMap", 346) >>


\* the heat map cell run on the map of the marker clusters
P7_CleanBasemapForgotten ==
    << St("pass", "", "", "", 355) >>

P7_CleanBasemap ==
    << St("Map", "m", "", MapArgs("OpenStreetMap", 12, TRUE), 356) >>

P7_HeatMap ==
    << St("HeatMap", "hm", "locns", "FF_heatmap", 372),
       St("add_to", "", "hm", "", 377),
       St("LayerControl_add_to", "", "m", "", 380),
       St("show", "", "m", "", 382) >>

P7_NewHeatMapExercise ==
    << St("pass", "", "", "", 400) >>


\* the boundary GeoPackage handed to the csv reader
P7_LoadLsoaImdByCsvReader ==
    << St("import", "", "", "pandas", 426),
       St("read_csv", "lsoa", "", "../data/soton_lsoa_distance.gpkg", 429),
       St("read_csv", "imd", "", "../data/IMD2019_Index_of_Multiple_Deprivation.csv", 432),
       St("rename", "imd", "imd", "", 434),
       St("select_cols", "imd", "imd", <<"lsoa", "imd_decile">>, 437) >>

P7_LoadLsoaImd ==
    << St("import", "", "", "pandas", 426),
       St("read_file", "lsoa", "", "../data/soton_lsoa_distance.gpkg", 429),
       St("read_csv", "imd", "", "../data/IMD2019_Index_of_Multiple_Deprivation.csv", 432),
       St("rename", "imd", "imd", "", 434),
       St("select_cols", "imd", "imd", <<"lsoa", "imd_decile">>, 437) >>

P7_ImdHead ==
    << St("inspect", "", "imd", "head", 446) >>

P7_InnerJoin ==
    << St("merge", "lsoa", "lsoa", "imd", 456) >>

P7_LsoaHead ==
    << St("inspect", "", "lsoa", "head", 465) >>


\* the reprojection of the LSOA table left out
P7_ProjectLsoaForgotten ==
    << St("pass", "", "", "", 474) >>

P7_ProjectLsoa ==
    << St("to_crs", "lsoa", "lsoa", EPSG_WGS84, 475) >>

P7_StaticMap ==
    << St("inspect", "", "lsoa", "plot", 485),
       St("inspect", "", "", "plt.show", 492) >>

P7_Choropleth ==
    << St("Map", "m", "", MapArgs("cartodbpositron", 12, TRUE), 518),
       St("Choropleth_add_to", "", "lsoa", FALSE, 525),
       St("LayerControl_add_to", "", "m", "", 538),
       St("show", "", "m", "", 540) >>

P7_ChoroplethHighlight ==
    << St("Map", "m", "", MapArgs("cartodbpositron", 12, TRUE), 557),
       St("Choropleth_add_to", "", "lsoa", TRUE, 564),
       St("LayerControl_add_to", "", "m", "", 578),
       St("show", "", "m", "", 580) >>

P7_Symbology ==
    << St("Map", "m", "", MapArgs("cartodbpositron", 12, TRUE), 601),
       St("literal", "colors", "", "", 608),
       St("def", "style_function", "", "", 612),
       St("GeoJson_add_to", "", "lsoa", "IMD_2019", 622),
       St("LayerControl_add_to", "", "m", "", 629),
       St("show", "", "m", "", 631) >>

P7_Tooltips ==
    << St("Map", "m", "", MapArgs("cartodbpositron", 12, TRUE), 652),
       St("Choropleth_add_to", "choropleth", "lsoa", TRUE, 660),
       St("LayerControl_add_to", "", "m", "", 674),
       St("add_tooltip", "", "choropleth", <<"lsoa", "imd_decile">>, 679),
       St("show", "", "m", "", 688) >>


\* the map saved over one of the input files
P7_OutputOverInput ==
    << St("save", "", "m", "../data/soton_lsoa_distance.gpkg", 707) >>

P7_Output ==
    << St("save", "", "m", OutputHtml, 707) >>

Practical7 ==
    << P7_LoadPackages, P7_SimpleBasemap, P7_ChangingBasemap, P7_AddBasemapOption,
       P7_LoadSupermarkets, P7_LoadFastFood, P7_Conversion, P7_FreshMap,
       P7_MultipleLayers, P7_ImportMarkerCluster, P7_StartBaseMap, P7_Locations,
       P7_MarkerClusters, P7_ImportHeatMap, P7_CleanBasemap, P7_HeatMap,
       P7_NewHeatMapExercise, P7_LoadLsoaImd, P7_ImdHead, P7_InnerJoin,
       P7_LsoaHead, P7_ProjectLsoa, P7_StaticMap, P7_Choropleth,
       P7_ChoroplethHighlight, P7_Symbology, P7_Tooltips, P7_Output >>

-----------------------------------------------------------------------------
(* The GeoPandas practical (unnamed/part_000), cell by cell. *)

P2_LoadPackages ==
    << St("import", "", "", "geopandas", 24),
       St("import", "", "", "pandas", 25) >>

P2_LoadStates ==
    << St("read_file", "gdf", "", "zip://../data/cb_2018_us_state_500k.zip", 97) >>

P2_SelectColumns ==
    << St("select_cols", "gdfSub", "gdf", <<"NAME", "GEOID", "ALAND">>, 212) >>

P2_SelectRows ==
    << St("select_rows", "nc", "gdf", "North Carolina", 250),
       St("show", "", "nc", "", 252) >>

P2_Geometry == << St("geometry", "gs", "gdf", "", 278) >>

P2_ImportShapely == << St("import", "", "", "shapely.geometry", 400) >>

P2_TestManual ==
    << St("GeoDataFrame_dict", "test", "", "", 412),
       St("inspect", "", "test", "print", 418),
       St("show", "", "test", "type", 419) >>

P2_RenameGeometry ==
    << St("rename_set_geometry", "test", "test", "shape", 438),
       St("show", "", "test", "", 440) >>

P2_Polygon ==
    << St("Polygon", "poly", "", "", 507),
       St("inspect", "", "poly", "print", 510),
       St("show", "", "poly", "", 511) >>

P2_LineString ==
    << St("LineString", "ln", "", "", 524),
       St("inspect", "", "ln", "print", 527),
       St("show", "", "ln", "", 528) >>

P2_ReadCsv ==
    << St("read_csv", "df", "", "../data/ne_cities_10m.csv", 588),
       St("show", "", "df", "type", 591) >>

P2_Cities == << St("GeoDataFrame_df", "cities", "df", "", 847) >>

P2_PointComprehension == << St("point_list", "", "df", <<0, 9>>, 1133) >>

P2_SavingData == << St("pass", "", "", "", 1164) >>

Practical2 ==
    << P2_LoadPackages,
       P2_LoadStates,
       << St("show", "", "gdf", "type", 124) >>,
       << St("inspect", "", "gdf", "shape", 134) >>,
       << St("inspect", "", "gdf", "head", 143) >>,
       << St("inspect", "", "gdf", "ALAND.sum", 174) >>,
       << St("inspect", "", "gdf", "area.head", 185) >>,
       P2_SelectColumns,
       << St("show", "", "gdfSub", "type", 222) >>,
       << St("inspect", "", "gdfSub", "head", 233) >>,
       P2_SelectRows,
       << St("inspect", "", "nc", "plot", 261) >>,
       P2_Geometry,
       << St("show", "", "gs", "type", 288) >>,
       << St("inspect", "", "gs", "head", 297) >>,
       << St("inspect", "", "gdf", "loc[0, 'geometry']", 321) >>,
       << St("inspect", "", "gdf", "geometry[0]", 333) >>,
       << St("inspect", "", "gdf", "len(geometry[0])", 350) >>,
       << St("inspect", "", "gdf", "geometry[0][0]", 362) >>,
       << St("inspect", "", "gdf", "geometry[0][7]", 372) >>,
       P2_ImportShapely,
       P2_TestManual,
       P2_RenameGeometry,
       << St("inspect", "", "test", "geometry", 449) >>,
       << St("inspect", "", "test", "geometry.name", 468) >>,
       << St("show", "", "test", "type", 486) >>,
       P2_Polygon,
       P2_LineString,
       << St("pass", "", "", "", 553) >>,
       P2_ReadCsv,
       << St("inspect", "", "df", "shape", 611) >>,
       << St("inspect", "", "df", "head", 829) >>,
       P2_Cities,
       << St("inspect", "", "cities", "head", 1071) >>,
       << St("inspect", "", "cities", "shape", 1098) >>,
       P2_PointComprehension,
       << St("pass", "", "", "", 1148) >>,
       P2_SavingData,
       << St("pass", "", "", "", 1191) >>,
       << St("pass", "", "", "", 1205) >> >>

Notebooks == {"P7", "P2"}

Program(n) == IF n = "P7" THEN Practical7 ELSE Practical2

\* the names either notebook binds
Names ==
    {"m", "smkt", "ff", "ff_gj", "idx", "feature", "marker", "locns", "mc", "hm",
     "lsoa", "imd", "colors", "style_function", "choropleth",
     "gdf", "gdfSub", "nc", "gs", "test", "poly", "ln", "df", "cities"}

-----------------------------------------------------------------------------
(* Objects.  Every object has the same shape; val depends on type. *)

Obj(type, cell, children, val) ==
    [type |-> type, madeIn |-> cell, parent |-> 0, children |-> children, val |-> val]

Range(f) == {f[i] : i \in DOMAIN f}

RECURSIVE SeqSum(_)
SeqSum(q) == IF q = <<>> THEN 0 ELSE Head(q) + SeqSum(Tail(q))

RECURSIVE Concat(_)
Concat(qq) == IF qq = <<>> THEN <<>> ELSE Head(qq) \o Concat(Tail(qq))

\* sequences over S of length at most n
SeqsUpTo(S, n) == UNION {[1..k -> S] : k \in 0..n}

\* the strictly increasing index sequences: the sub-sequences of q
IsIncreasing(ix) == \A i \in 1..(Len(ix) - 1) : ix[i] < ix[i + 1]
SubSeqsUpTo(q, n) ==
    { [i \in 1..Len(ix) |-> q[ix[i]]] :
        ix \in {x \in SeqsUpTo(1..Len(q), n) : IsIncreasing(x)} }

(* Tables: DataFrame ("df") and GeoDataFrame ("gdf").  A row is a record
   over the column names; index holds the row labels; crs 0 is "no CRS". *)
Table(cols, geom, crs, index, rows) ==
    [cols |-> cols, geom |-> geom, crs |-> crs, index |-> index, rows |-> rows]

RangeIndex(n) == [i \in 1..n |-> i - 1]

(* Coordinate reprojection between the British National Grid and WGS84 on
   the grid of points the model uses: BNG (easting, northing) in metres,
   WGS84 (longitude, latitude) in 1e-6 degrees. *)
BngOrigin == <<442000, 112000>>
WgsOrigin == <<-1399073, 50934358>>

Transform(xy, from, to) ==
    IF from = to THEN xy
    ELSE IF from = EPSG_BNG /\ to = EPSG_WGS84
         THEN <<xy[1] - BngOrigin[1] + WgsOrigin[1], xy[2] - BngOrigin[2] + WgsOrigin[2]>>
    ELSE IF from = EPSG_WGS84 /\ to = EPSG_BNG
         THEN <<xy[1] - WgsOrigin[1] + BngOrigin[1], xy[2] - WgsOrigin[2] + BngOrigin[2]>>
    ELSE xy

TransformGeom(g, from, to) ==
    IF g.kind = "Point" THEN [g EXCEPT !.xy = Transform(g.xy, from, to)]
    ELSE [g EXCEPT !.parts = [i \in 1..Len(g.parts) |-> Transform(g.parts[i], from, to)]]

Point(x, y) == [kind |-> "Point", xy |-> <<x, y>>]
MultiPoint(parts) == [kind |-> "MultiPoint", parts |-> parts]
Polygon(ring) == [kind |-> "Polygon", parts |-> ring \o <<ring[1]>>]
LineString(coords) == [kind |-> "LineString", parts |-> coords]

(* What gpd.read_file can return for a point GeoPackage: features of one or
   more points each, at most MaxPts points in all, stored in EPSG:27700. *)
PointShapes == {q \in SeqsUpTo(1..MaxPts, MaxPts) : SeqSum(q) <= MaxPts}

PointTable(shape) ==
    Table(<<"name", "geometry">>, "geometry", EPSG_BNG, RangeIndex(Len(shape)),
          [i \in 1..Len(shape) |->
              [name |-> i,
               geometry |-> MultiPoint([j \in 1..shape[i] |->
                                <<BngOrigin[1] + i, BngOrigin[2] + j>>])]])

(* The LSOA boundary GeoPackage: one polygon per LSOA code, in EPSG:27700. *)
CodeSeq == <<"E01", "E02">>
CodeNo(c) == CHOOSE i \in 1..Len(CodeSeq) : CodeSeq[i] = c

LsoaPolygon(c) ==
    Polygon(<< <<BngOrigin[1] + CodeNo(c), BngOrigin[2]>>,
               <<BngOrigin[1] + CodeNo(c) + 1, BngOrigin[2]>>,
               <<BngOrigin[1] + CodeNo(c), BngOrigin[2] + 1>> >>)

LsoaTable(codes) ==
    Table(<<"lsoa", "geometry">>, "geometry", EPSG_BNG, RangeIndex(Len(codes)),
          [i \in 1..Len(codes) |-> [lsoa |-> codes[i], geometry |-> LsoaPolygon(codes[i])]])

LsoaFiles == {LsoaTable(codes) : codes \in SubSeqsUpTo(CodeSeq, MaxLsoa)}

(* The IMD csv: one row per LSOA code with its decile, under the long
   column names of the published table. *)
ColCode == "LSOA code (2011)"
ColDecile == "Index of Multiple Deprivation (IMD) Decile"
ColRank == "Index of Multiple Deprivation (IMD) Rank"

ImdRow(c, d) == (ColCode :> c) @@ (ColRank :> d * 3000) @@ (ColDecile :> d)

ImdTable(codes, ds) ==
    Table(<<ColCode, ColRank, ColDecile>>, "", 0, RangeIndex(Len(codes)),
          [i \in 1..Len(codes) |-> ImdRow(codes[i], ds[i])])

ImdFiles ==
    UNION { {ImdTable(codes, ds) : ds \in [1..Len(codes) -> Deciles]} :
              codes \in SubSeqsUpTo(CodeSeq, MaxImd) }

-----------------------------------------------------------------------------
(* The table operations the cells call *)

\* Python's seq[i]: 0-based, negative i counts from the end
PyIndex(q, i) ==
    IF 0 <= i /\ i < Len(q) THEN q[i + 1]
    ELSE IF i < 0 /\ -i <= Len(q) THEN q[Len(q) + i + 1]
    ELSE "IndexError"

\* Python's seq[a:b] for 0 <= a <= b: the items at positions a .. b - 1 that exist
PySlice(q, a, b) == SubSeq(q, a + 1, IF b < Len(q) THEN b ELSE Len(q))

\* smkt.explode(): one row per part of each multi-part geometry, the other
\* columns repeated, the index extended by the part number
ExplodeRow(row, label, geom) ==
    [j \in 1..Len(row[geom].parts) |->
        [idx |-> <<label, j - 1>>,
         row |-> [row EXCEPT ![geom] = [kind |-> "Point", xy |-> row[geom].parts[j]]]]]

Explode(t) ==
    LET parts == Concat([i \in 1..Len(t.rows) |-> ExplodeRow(t.rows[i], t.index[i], t.geom)])
    IN  [t EXCEPT !.index = [k \in 1..Len(parts) |-> parts[k].idx],
                  !.rows = [k \in 1..Len(parts) |-> parts[k].row]]

\* t.to_crs(crs): a new table, every geometry transformed
ToCrs(t, crs) ==
    [t EXCEPT !.crs = crs,
              !.rows = [i \in 1..Len(t.rows) |->
                          [t.rows[i] EXCEPT ![t.geom] = TransformGeom(@, t.crs, crs)]]]

\* imd.rename(columns={'LSOA code (2011)': 'lsoa', '... Decile': 'imd_decile'})
NewName(c) ==
    IF c = ColCode THEN "lsoa" ELSE IF c = ColDecile THEN "imd_decile" ELSE c

OldName(t, c) == CHOOSE o \in Range(t.cols) : NewName(o) = c

Rename(t) ==
    LET cols == [i \in 1..Len(t.cols) |-> NewName(t.cols[i])]
    IN  [t EXCEPT !.cols = cols,
                  !.rows = [i \in 1..Len(t.rows) |->
                              [c \in Range(cols) |-> t.rows[i][OldName(t, c)]]]]

\* t[[c1, c2, ...]]: the listed columns, in the listed order
SelectCols(t, cols) ==
    [t EXCEPT !.cols = cols,
              !.geom = IF t.geom \in Range(cols) THEN t.geom ELSE "",
              !.crs = IF t.geom \in Range(cols) THEN t.crs ELSE 0,
              !.rows = [i \in 1..Len(t.rows) |-> [c \in Range(cols) |-> t.rows[i][c]]]]

\* the selection keeping the class of the table it was taken from
KindOfSource(t) == "gdf"

\* a GeoDataFrame without its geometry column is a plain DataFrame
KindOf(t) == IF t.geom = "" THEN "df" ELSE "gdf"

\* left.merge(right, on=key): pandas' default how='inner'; the rows in the
\* order of the left keys, the index renumbered
MatchesOf(lrow, right, key) ==
    LET hits == SelectSeq([j \in 1..Len(right.rows) |-> j],
                          LAMBDA j : right.rows[j][key] = lrow[key])
        rest == Range(right.cols) \ {key}
    IN  [k \in 1..Len(hits) |->
            [c \in DOMAIN lrow \cup rest |->
                IF c \in DOMAIN lrow THEN lrow[c] ELSE right.rows[hits[k]][c]]]

\* the join taken as how='left': a left row without a match is kept, its
\* right-hand columns missing
MergeLeft(left, right, key) ==
    LET rest == Range(right.cols) \ {key}
        kept(lrow) ==
            IF MatchesOf(lrow, right, key) # <<>> THEN MatchesOf(lrow, right, key)
            ELSE << [c \in DOMAIN lrow \cup rest |->
                        IF c \in DOMAIN lrow THEN lrow[c] ELSE "NaN"] >>
        rows == Concat([i \in 1..Len(left.rows) |-> kept(left.rows[i])])
    IN  [left EXCEPT !.cols = left.cols \o SelectSeq(right.cols, LAMBDA c : c # key),
                     !.index = RangeIndex(Len(rows)),
                     !.rows = rows]

Merge(left, right, key) ==
    LET rows == Concat([i \in 1..Len(left.rows) |-> MatchesOf(left.rows[i], right, key)])
    IN  [left EXCEPT !.cols = left.cols \o SelectSeq(right.cols, LAMBDA c : c # key),
                     !.index = RangeIndex(Len(rows)),
                     !.rows = rows]

\* list(zip(ff.geometry.y, ff.geometry.x)): (lat, long) pairs
ZipYX(t) == [i \in 1..Len(t.rows) |-> <<t.rows[i][t.geom].xy[2], t.rows[i][t.geom].xy[1]>>]

-----------------------------------------------------------------------------
(* Colormaps and symbology cell *)

colors ==
    << "#a6cee3", "#1f78b4", "#b2df8a", "#33a02c", "#fb9a99",
       "#e31a1c", "#fdbf6f", "#ff7f00", "#cab2d6", "#6a3d9a" >>


\* the decile used as the list index without the - 1
style_functionNoOffset(feature) ==
    [fillOpacity |-> 7,
     weight |-> 0,
     color |-> "black",
     fillColor |-> PyIndex(colors, feature.properties.imd_decile)]

\* the fill colour the cell's function picks: colors[int(decile) - 1]
style_function(feature) ==
    [fillOpacity |-> 7,      \* 0.7, in tenths
     weight |-> 0,
     color |-> "black",
     fillColor |-> PyIndex(colors, feature.properties.imd_decile - 1)]

-----------------------------------------------------------------------------
(* The files of the GeoPandas practical *)

StateSeq == <<"North Carolina", "Ohio", "Texas">>
StateNo(n) == CHOOSE i \in 1..Len(StateSeq) : StateSeq[i] = n

StateRow(n) ==
    [NAME |-> n, GEOID |-> StateNo(n), ALAND |-> 100 * StateNo(n),
     geometry |-> [kind |-> "MultiPolygon",
                   parts |-> [j \in 1..StateNo(n) |-> <<-80 - StateNo(n), 35 + j>>]]]

\* the Census Bureau shapefile is in NAD83 (EPSG:4269)
StateTable(names) ==
    Table(<<"NAME", "GEOID", "ALAND", "geometry">>, "geometry", 4269,
          RangeIndex(Len(names)), [i \in 1..Len(names) |-> StateRow(names[i])])

StateFiles == {StateTable(names) : names \in SubSeqsUpTo(StateSeq, MaxRows)}

CityCoords == { <<-1, 51>>, <<2, 49>> }    \* (longitude, latitude)

CityTable(coords) ==
    Table(<<"name", "latitude", "longitude">>, "", 0, RangeIndex(Len(coords)),
          [i \in 1..Len(coords) |->
              [name |-> i, latitude |-> coords[i][2], longitude |-> coords[i][1]]])

CityFiles == {CityTable(coords) : coords \in SeqsUpTo(CityCoords, MaxRows)}

\* what each reader can find at a path
FileContents(path) ==
    IF path \in {"../data/soton_smkts.gpkg", "../data/soton_fastfood.gpkg"}
        THEN {PointTable(shape) : shape \in PointShapes}
    ELSE IF path = "../data/soton_lsoa_distance.gpkg" THEN LsoaFiles
    ELSE IF path = "zip://../data/cb_2018_us_state_500k.zip" THEN StateFiles
    ELSE IF path = "../data/IMD2019_Index_of_Multiple_Deprivation.csv" THEN ImdFiles
    ELSE CityFiles

InputFiles ==
    {"../data/soton_smkts.gpkg", "../data/soton_fastfood.gpkg",
     "../data/soton_lsoa_distance.gpkg", "zip://../data/cb_2018_us_state_500k.zip",
     "../data/IMD2019_Index_of_Multiple_Deprivation.csv", "../data/ne_cities_10m.csv"}

-----------------------------------------------------------------------------
(* folium *)

\* parent.add_child(child): the child is appended to the parent's children
\* (once) and its parent pointer is set
AddChild(h, parent, child) ==
    [h EXCEPT ![parent].children = IF child \in Range(@) THEN @ ELSE Append(@, child),
              ![child].parent = parent]

\* folium.Map(location, tiles, zoom_start, control_scale): a new map whose
\* only child is the tile layer of its basemap; the map is the last object
FoliumMap(h, cell, args) ==
    LET tl == Len(h) + 1
        mp == Len(h) + 2
    IN  AddChild(h \o << Obj("TileLayer", cell, <<>>, [tiles |-> args.tiles]),
                         Obj("Map", cell, <<>>,
                             [location |-> Southampton, zoom_start |-> args.zoom,
                              tiles |-> args.tiles, control_scale |-> args.scale]) >>,
                 mp, tl)

\* the GeoJSON features of a GeoDataFrame: properties and geometry per row
Features(t) ==
    [i \in 1..Len(t.rows) |->
        [properties |-> [c \in Range(t.cols) \ {t.geom} |-> t.rows[i][c]],
         geometry |-> t.rows[i][t.geom]]]

\* folium's default path style
DefaultStyle == [fillOpacity |-> 2, weight |-> 2, color |-> "blue", fillColor |-> "blue"]

\* folium.features.GeoJson(data, name=...), without a style function
GeoJson(cell, t, name) ==
    Obj("GeoJson", cell, <<>>,
        [name |-> name, crs |-> t.crs, features |-> Features(t),
         styledBy |-> "folium",
         styles |-> [i \in 1..Len(t.rows) |-> DefaultStyle]])


\* the style function not passed on: folium's default style
StyledGeoJsonUnstyled(cell, t, name) == GeoJson(cell, t, name)

\* folium.features.GeoJson(data, style_function=style_function, name=...)
StyledGeoJson(cell, t, name) ==
    Obj("GeoJson", cell, <<>>,
        [name |-> name, crs |-> t.crs, features |-> Features(t),
         styledBy |-> "style_function",
         styles |-> [i \in 1..Len(t.rows) |-> style_function(Features(t)[i])]])

\* ColorBrewer 'Reds' in the six classes folium.Choropleth bins into
Reds == << "#fee5d9", "#fcbba1", "#fc9272", "#fb6a4a", "#de2d26", "#a50f15" >>

SetMin(S) == CHOOSE x \in S : \A y \in S : x <= y
SetMax(S) == CHOOSE x \in S : \A y \in S : x >= y

\* the class of value d among six equal-width bins over [lo, hi]
BinOf(d, lo, hi) ==
    IF hi = lo THEN 3
    ELSE LET b == ((d - lo) * Len(Reds)) \div (hi - lo)
         IN  IF b >= Len(Reds) THEN Len(Reds) - 1 ELSE b

ChoroplethStyle(d, values) ==
    [fillOpacity |-> 7, weight |-> 1, color |-> "black",
     fillColor |-> Reds[BinOf(d, SetMin(values), SetMax(values)) + 1]]

\* folium.Choropleth(geo_data=t, data=t, columns=['lsoa', 'imd_decile'],
\* fill_color='Reds', ...): the layer, its GeoJson child and its colour scale
\* are appended to the heap; the Choropleth is the last object
Choropleth(h, cell, t, highlight) ==
    LET values == {t.rows[i]["imd_decile"] : i \in 1..Len(t.rows)}
        gj == Len(h) + 1
        cs == Len(h) + 2
        ch == Len(h) + 3
        h1 == h \o << Obj("GeoJson", cell, <<>>,
                          [name |-> "", crs |-> t.crs, features |-> Features(t),
                           styledBy |-> "folium",
                           styles |-> [i \in 1..Len(t.rows) |->
                               ChoroplethStyle(t.rows[i]["imd_decile"], values)]]),
                      Obj("StepColormap", cell, <<>>, [colors |-> Reds]),
                      Obj("Choropleth", cell, <<>>,
                          [name |-> "IMD_2019", geojson |-> gj,
                           highlight |-> highlight]) >>
    IN  AddChild(AddChild(h1, ch, gj), ch, cs)

-----------------------------------------------------------------------------
(* The kernel *)

Cell == Program(nb)[pc.cell]
Cur == Cell[pc.stmt]

LastStmt == pc.stmt = Len(Cell)
LastCell == pc.cell = Len(Program(nb))

\* the statements that call into a library, and so can raise
CanRaise(op) == op \notin {"show", "pass", "literal", "def"}


\* the marker loop handing its markers to a timer callback
SpawnsCallback(st) == IF st.op = "for_markers" THEN {"callback"} ELSE {}

\* the threads, timers, callbacks or asynchronous tasks a statement starts:
\* no statement of either notebook starts one
Spawns(st) == {}

\* the statement completed: on to the next one, of this cell or of the next
Advance(newEnv) ==
    /\ pc' = IF ~LastStmt THEN [cell |-> pc.cell, stmt |-> pc.stmt + 1, it |-> 0]
             ELSE IF ~LastCell THEN [cell |-> pc.cell + 1, stmt |-> 1, it |-> 0]
             ELSE pc
    /\ status' = IF LastStmt /\ LastCell THEN "done" ELSE "running"
    /\ env' = newEnv
    /\ envStart' = IF LastStmt THEN newEnv ELSE envStart
    /\ pending' = pending \cup Spawns(Cur)
    /\ raised' = raised

At(op) == status = "running" /\ Cur.op = op

\* the in-place mutation of object id by the current cell
Mut(id) == [by |-> pc.cell, obj |-> id, madeIn |-> heap[id].madeIn]

Bind(name, id) == [env EXCEPT ![name] = id]

\* x = <a new object>: the object is appended to the heap and bound
Assign(obj) ==
    /\ heap' = Append(heap, obj)
    /\ Advance(Bind(Cur.tgt, Len(heap) + 1))
    /\ UNCHANGED <<nb, fs, reads, muts>>

\* a statement with no effect on the kernel's state
Skip ==
    /\ Advance(env)
    /\ UNCHANGED <<nb, heap, fs, reads, muts>>

ValOf(name) == heap[env[name]].val

Import == At("import") /\ Skip

Show == At("show") /\ Skip

Inspect == At("inspect") /\ Skip

Pass == At("pass") /\ Skip

\* m = folium.Map(...)
NewMap ==
    /\ At("Map")
    /\ heap' = FoliumMap(heap, pc.cell, Cur.arg)
    /\ Advance(Bind("m", Len(heap') ))
    /\ UNCHANGED <<nb, fs, reads, muts>>


\* the second basemap made as a new map: m = folium.Map(tiles='stamentoner')
TileLayerAddToNewMap ==
    /\ At("TileLayer_add_to")
    /\ heap' = FoliumMap(heap, pc.cell, MapArgs(Cur.arg, 15, FALSE))
    /\ Advance(Bind("m", Len(heap')))
    /\ UNCHANGED <<nb, fs, reads, muts>>

\* folium.TileLayer('stamentoner').add_to(m)
TileLayerAddTo ==
    /\ At("TileLayer_add_to")
    /\ heap' = AddChild(Append(heap, Obj("TileLayer", pc.cell, <<>>, [tiles |-> Cur.arg])),
                        env["m"], Len(heap) + 1)
    /\ muts' = muts \cup {Mut(env["m"])}
    /\ Advance(env)
    /\ UNCHANGED <<nb, fs, reads>>

\* folium.LayerControl().add_to(m)
LayerControlAddTo ==
    /\ At("LayerControl_add_to")
    /\ heap' = AddChild(Append(heap, Obj("LayerControl", pc.cell, <<>>, <<>>)),
                        env["m"], Len(heap) + 1)
    /\ muts' = muts \cup {Mut(env["m"])}
    /\ Advance(env)
    /\ UNCHANGED <<nb, fs, reads>>

\* x = gpd.read_file(path)
ReadFile ==
    /\ At("read_file")
    /\ \E t \in FileContents(Cur.arg) :
          /\ heap' = Append(heap, Obj("gdf", pc.cell, <<>>, t))
          /\ Advance(Bind(Cur.tgt, Len(heap) + 1))
    /\ reads' = reads \cup {[path |-> Cur.arg, reader |-> "gpd.read_file"]}
    /\ UNCHANGED <<nb, fs, muts>>

\* x = pd.read_csv(path)
ReadCsv ==
    /\ At("read_csv")
    /\ \E t \in FileContents(Cur.arg) :
          /\ heap' = Append(heap, Obj("df", pc.cell, <<>>, t))
          /\ Advance(Bind(Cur.tgt, Len(heap) + 1))
    /\ reads' = reads \cup {[path |-> Cur.arg, reader |-> "pd.read_csv"]}
    /\ UNCHANGED <<nb, fs, muts>>

\* x = x.explode()
ExplodeStmt == At("explode") /\ Assign(Obj("gdf", pc.cell, <<>>, Explode(ValOf(Cur.src))))


\* x.to_crs(4326, inplace=True): the table itself is changed
ToCrsStmtInPlace ==
    /\ At("to_crs")
    /\ heap' = [heap EXCEPT ![env[Cur.src]].val = ToCrs(@, Cur.arg)]
    /\ muts' = muts \cup {Mut(env[Cur.src])}
    /\ Advance(env)
    /\ UNCHANGED <<nb, fs, reads>>

\* x = x.to_crs(4326)
ToCrsStmt == At("to_crs") /\ Assign(Obj("gdf", pc.cell, <<>>, ToCrs(ValOf(Cur.src), Cur.arg)))

\* imd = imd.rename(columns={...})
RenameStmt == At("rename") /\ Assign(Obj("df", pc.cell, <<>>, Rename(ValOf(Cur.src))))

\* x = y[[...]]
SelectColsStmt ==
    /\ At("select_cols")
    /\ LET t == SelectCols(ValOf(Cur.src), Cur.arg)
       IN  Assign(Obj(KindOf(t), pc.cell, <<>>, t))

\* lsoa = lsoa.merge(imd, on='lsoa')
MergeStmt ==
    /\ At("merge")
    /\ Assign(Obj("gdf", pc.cell, <<>>, Merge(ValOf(Cur.src), ValOf(Cur.arg), "lsoa")))

\* ff_gj = folium.features.GeoJson(ff, name='Fast Food')
GeoJsonStmt == At("GeoJson") /\ Assign(GeoJson(pc.cell, ValOf(Cur.src), Cur.arg))

\* ff_gj.add_to(m), mc.add_to(m), hm.add_to(m)
AddTo ==
    /\ At("add_to")
    /\ heap' = AddChild(heap, env["m"], env[Cur.src])
    /\ muts' = muts \cup {Mut(env["m"]), Mut(env[Cur.src])}
    /\ Advance(env)
    /\ UNCHANGED <<nb, fs, reads>>

\* for idx, feature in smkt.iterrows():
\*     marker = folium.map.Marker([feature['geometry'].y, feature['geometry'].x],
\*                                icon=folium.Icon(color='green')).add_to(m)
\* One step per iteration; pc.it counts the iterations done.
ForMarkers ==
    /\ At("for_markers")
    /\ LET t == ValOf(Cur.src)
           n == Len(t.rows)
           i == pc.it + 1
       IN  IF n = 0
           THEN Skip
           ELSE LET row == t.rows[i]
                    h1 == heap \o
                          << Obj("tuple", pc.cell, <<>>, t.index[i]),
                             Obj("Series", pc.cell, <<>>, row),
                             Obj("Marker", pc.cell, <<>>,
                                 [location |-> <<row["geometry"].xy[2], row["geometry"].xy[1]>>,
                                  crs |-> t.crs, icon |-> Cur.arg]) >>
                    newEnv == [env EXCEPT !["idx"] = Len(heap) + 1,
                                          !["feature"] = Len(heap) + 2,
                                          !["marker"] = Len(heap) + 3]
                IN  /\ heap' = AddChild(h1, env["m"], Len(heap) + 3)
                    /\ muts' = muts \cup {Mut(env["m"])}
                    /\ IF i = n
                       THEN Advance(newEnv)
                       ELSE /\ pc' = [pc EXCEPT !.it = i]
                            /\ env' = newEnv
                            /\ pending' = pending \cup Spawns(Cur)
                            /\ UNCHANGED <<status, envStart, raised>>
                    /\ UNCHANGED <<nb, fs, reads>>

\* locns = list(zip(ff.geometry.y, ff.geometry.x))
ZipStmt ==
    /\ At("zip_yx")
    /\ Assign(Obj("list", pc.cell, <<>>, [crs |-> ValOf(Cur.src).crs, items |-> ZipYX(ValOf(Cur.src))]))

\* mc = MarkerCluster(locns): one Marker child per location
MarkerClusterStmt ==
    /\ At("MarkerCluster")
    /\ LET locs == ValOf(Cur.src)
           n == Len(locs.items)
           mcId == Len(heap) + n + 1
           h1 == heap \o [i \in 1..n |->
                            [Obj("Marker", pc.cell, <<>>,
                                 [location |-> locs.items[i], crs |-> locs.crs, icon |-> ""])
                             EXCEPT !.parent = mcId]]
       IN  /\ heap' = Append(h1, Obj("MarkerCluster", pc.cell,
                                     [i \in 1..n |-> Len(heap) + i],
                                     [crs |-> locs.crs, locations |-> locs.items]))
           /\ Advance(Bind(Cur.tgt, mcId))
    /\ UNCHANGED <<nb, fs, reads, muts>>

\* hm = HeatMap(locns, name='FF_heatmap')
HeatMapStmt ==
    /\ At("HeatMap")
    /\ Assign(Obj("HeatMap", pc.cell, <<>>,
                  [name |-> Cur.arg, crs |-> ValOf(Cur.src).crs, data |-> ValOf(Cur.src).items]))

\* [choropleth =] folium.Choropleth(...).add_to(m)
ChoroplethAddTo ==
    /\ At("Choropleth_add_to")
    /\ LET h1 == Choropleth(heap, pc.cell, ValOf(Cur.src), Cur.arg)
       IN  /\ heap' = AddChild(h1, env["m"], Len(h1))
           /\ Advance(IF Cur.tgt = "" THEN env ELSE Bind(Cur.tgt, Len(h1)))
    /\ muts' = muts \cup {Mut(env["m"])}
    /\ UNCHANGED <<nb, fs, reads>>

\* colors = [...]
Literal == At("literal") /\ Assign(Obj("list", pc.cell, <<>>, [crs |-> 0, items |-> colors]))

\* def style_function(feature): ...
Def == At("def") /\ Assign(Obj("function", pc.cell, <<>>, [name |-> Cur.tgt]))

\* folium.features.GeoJson(lsoa, style_function=style_function, name='IMD_2019').add_to(m)
GeoJsonAddTo ==
    /\ At("GeoJson_add_to")
    /\ heap' = AddChild(Append(heap, StyledGeoJson(pc.cell, ValOf(Cur.src), Cur.arg)),
                        env["m"], Len(heap) + 1)
    /\ muts' = muts \cup {Mut(env["m"])}
    /\ Advance(env)
    /\ UNCHANGED <<nb, fs, reads>>

\* choropleth.geojson.add_child(folium.features.GeoJsonTooltip(fields=[...], ...))
AddTooltip ==
    /\ At("add_tooltip")
    /\ LET gj == ValOf(Cur.src).geojson
       IN  /\ heap' = AddChild(Append(heap, Obj("GeoJsonTooltip", pc.cell, <<>>,
                                                [fields |-> Cur.arg])),
                               gj, Len(heap) + 1)
           /\ muts' = muts \cup {Mut(gj)}
    /\ Advance(env)
    /\ UNCHANGED <<nb, fs, reads>>

\* m.save("../test_folium_map.html")
Save ==
    /\ At("save")
    /\ fs' = fs \cup {[path |-> Cur.arg, by |-> "Map.save", root |-> env[Cur.src]]}
    /\ Advance(env)
    /\ UNCHANGED <<nb, heap, reads, muts>>

-----------------------------------------------------------------------------
(* The statements of the GeoPandas practical *)

\* gdf[gdf['NAME'] == name]: the rows that satisfy the condition, all columns
SelectRows(t, name) ==
    LET keep == SelectSeq([i \in 1..Len(t.rows) |-> i], LAMBDA i : t.rows[i]["NAME"] = name)
    IN  [t EXCEPT !.index = [k \in 1..Len(keep) |-> t.index[keep[k]]],
                  !.rows = [k \in 1..Len(keep) |-> t.rows[keep[k]]]]

\* test.rename(columns={old: new})
RenameColumn(t, old, new) ==
    LET nm(c) == IF c = old THEN new ELSE c
        cols == [i \in 1..Len(t.cols) |-> nm(t.cols[i])]
    IN  [t EXCEPT !.cols = cols,
                  !.rows = [i \in 1..Len(t.rows) |->
                              [c \in Range(cols) |->
                                  IF c = new THEN t.rows[i][old] ELSE t.rows[i][c]]]]

\* t.set_geometry(col): col becomes the active geometry column
SetGeometry(t, col) == [t EXCEPT !.geom = col]

\* gpd.points_from_xy(x, y)
PointsFromXY(xs, ys) == [i \in 1..Len(xs) |-> Point(xs[i], ys[i])]

\* the comprehension building its list back to front
RECURSIVE PointListReversed(_, _)
PointListReversed(xs, ys) ==
    IF xs = <<>> \/ ys = <<>> THEN <<>>
    ELSE PointListReversed(Tail(xs), Tail(ys)) \o <<Point(Head(xs), Head(ys))>>

\* [Point(x, y) for x, y in zip(xs, ys)]
RECURSIVE PointList(_, _)
PointList(xs, ys) ==
    IF xs = <<>> \/ ys = <<>> THEN <<>>
    ELSE <<Point(Head(xs), Head(ys))>> \o PointList(Tail(xs), Tail(ys))

Column(t, c) == [i \in 1..Len(t.rows) |-> t.rows[i][c]]

\* t.geometry: the active geometry column as a GeoSeries
GeometryOf(t) ==
    [name |-> t.geom, crs |-> t.crs, index |-> t.index, geoms |-> Column(t, t.geom)]

\* gpd.GeoDataFrame(df, geometry=geoms)
WithGeometry(t, geoms) ==
    [t EXCEPT !.cols = Append(t.cols, "geometry"),
              !.geom = "geometry",
              !.rows = [i \in 1..Len(t.rows) |->
                          [c \in DOMAIN t.rows[i] \cup {"geometry"} |->
                              IF c = "geometry" THEN geoms[i] ELSE t.rows[i][c]]]]

\* gpd.GeoDataFrame({'geometry': [Point(1, 1), Point(2, 2)], 'var1': [1, 2], 'var2': [3, 4]})
TestTable ==
    Table(<<"geometry", "var1", "var2">>, "geometry", 0, RangeIndex(2),
          << [geometry |-> Point(1, 1), var1 |-> 1, var2 |-> 3],
             [geometry |-> Point(2, 2), var1 |-> 2, var2 |-> 4] >>)

\* the vertices of poly and ln, in hundredths
TestCoords == << <<50, 100>>, <<100, 200>>, <<75, 300>>, <<75, 350>>, <<50, 400>> >>

SelectRowsStmt ==
    /\ At("select_rows")
    /\ Assign(Obj("gdf", pc.cell, <<>>, SelectRows(ValOf(Cur.src), Cur.arg)))

GeometryStmt ==
    /\ At("geometry")
    /\ Assign(Obj("GeoSeries", pc.cell, <<>>, GeometryOf(ValOf(Cur.src))))

GeoDataFrameDict == At("GeoDataFrame_dict") /\ Assign(Obj("gdf", pc.cell, <<>>, TestTable))

\* the rename without the set_geometry that follows it
RenameWithoutSetGeometry ==
    /\ At("rename_set_geometry")
    /\ Assign(Obj("gdf", pc.cell, <<>>, RenameColumn(ValOf(Cur.src), "geometry", Cur.arg)))

\* test = test.rename(columns={'geometry': 'shape'}).set_geometry('shape')
RenameSetGeometry ==
    /\ At("rename_set_geometry")
    /\ Assign(Obj("gdf", pc.cell, <<>>,
                  SetGeometry(RenameColumn(ValOf(Cur.src), "geometry", Cur.arg), Cur.arg)))

PolygonStmt == At("Polygon") /\ Assign(Obj("Polygon", pc.cell, <<>>, Polygon(TestCoords)))

LineStringStmt ==
    At("LineString") /\ Assign(Obj("LineString", pc.cell, <<>>, LineString(TestCoords)))

\* the coordinates handed over as (latitude, longitude)
GeoDataFrameDfLatLon ==
    /\ At("GeoDataFrame_df")
    /\ LET t == ValOf(Cur.src)
       IN  Assign(Obj("gdf", pc.cell, <<>>,
                      WithGeometry(t, PointsFromXY(Column(t, "latitude"),
                                                   Column(t, "longitude")))))

\* cities = gpd.GeoDataFrame(df, geometry=gpd.points_from_xy(df.longitude, df.latitude))
GeoDataFrameDf ==
    /\ At("GeoDataFrame_df")
    /\ LET t == ValOf(Cur.src)
       IN  Assign(Obj("gdf", pc.cell, <<>>,
                      WithGeometry(t, PointsFromXY(Column(t, "longitude"),
                                                   Column(t, "latitude")))))

\* [Point(x, y) for x, y in zip(df.longitude, df.latitude)][0:9]: the value is
\* displayed and bound to no name
PointListStmt ==
    /\ At("point_list")
    /\ LET t == ValOf(Cur.src)
           items == PointList(Column(t, "longitude"), Column(t, "latitude"))
       IN  heap' = Append(heap, Obj("list", pc.cell, <<>>,
                    [crs |-> 0, items |-> items,
                     shown |-> PySlice(items, Cur.arg[1], Cur.arg[2])]))
    /\ Advance(env)
    /\ UNCHANGED <<nb, fs, reads, muts>>

-----------------------------------------------------------------------------
(* A library call raises: nothing in either notebook catches it, so the
   statement has no effect, the rest of the cell is skipped and the run of
   the notebook stops with the exception pending. *)

\* the exception swallowed: the failing statement binds nothing and the
\* cell goes on with its next statement
RaiseAndContinue ==
    /\ status = "running"
    /\ CanRaise(Cur.op)
    /\ raised' = [cell |-> pc.cell, stmt |-> pc.stmt, op |-> Cur.op]
    /\ pc' = IF ~LastStmt THEN [cell |-> pc.cell, stmt |-> pc.stmt + 1, it |-> 0] ELSE pc
    /\ status' = "error"
    /\ UNCHANGED <<nb, env, envStart, heap, fs, reads, muts, pending>>

Raise ==
    /\ status = "running"
    /\ CanRaise(Cur.op)
    /\ status' = "error"
    /\ raised' = [cell |-> pc.cell, stmt |-> pc.stmt, op |-> Cur.op]
    /\ UNCHANGED <<nb, pc, env, envStart, heap, fs, reads, muts, pending>>

Init ==
    /\ nb \in Notebooks
    /\ pc = [cell |-> 1, stmt |-> 1, it |-> 0]
    /\ status = "running"
    /\ env = [n \in Names |-> 0]
    /\ envStart = [n \in Names |-> 0]
    /\ heap = <<>>
    /\ fs = {}
    /\ reads = {}
    /\ muts = {}
    /\ pending = {}
    /\ raised = NoError

Next ==
    \/ Import \/ Show \/ Inspect \/ Pass
    \/ NewMap \/ TileLayerAddTo \/ LayerControlAddTo
    \/ ReadFile \/ ReadCsv \/ ExplodeStmt \/ ToCrsStmt
    \/ RenameStmt \/ SelectColsStmt \/ MergeStmt
    \/ GeoJsonStmt \/ AddTo \/ ForMarkers \/ ZipStmt
    \/ MarkerClusterStmt \/ HeatMapStmt \/ ChoroplethAddTo
    \/ Literal \/ Def \/ GeoJsonAddTo \/ AddTooltip \/ Save
    \/ SelectRowsStmt \/ GeometryStmt \/ GeoDataFrameDict \/ RenameSetGeometry
    \/ PolygonStmt \/ LineStringStmt \/ GeoDataFrameDf \/ PointListStmt
    \/ Raise

Spec == Init /\ [][Next]_vars

-----------------------------------------------------------------------------
(* Properties *)

\* the position of a cell of Practical 7 among its code cells
CellNo(c) == CHOOSE i \in 1..Len(Practical7) : Practical7[i] = c

Ids == 1..Len(heap)

IsCsv(path) ==
    path \in {"../data/IMD2019_Index_of_Multiple_Deprivation.csv", "../data/ne_cities_10m.csv"}

\* the names a statement binds
Targets(st) ==
    IF st.op = "for_markers" THEN {"idx", "feature", "marker"}
    ELSE IF st.tgt = "" THEN {} ELSE {st.tgt}

\* the names bound by the statements of the current cell before / after
\* the statement at pc (a loop that has iterated has bound its names)
BoundBefore ==
    UNION {Targets(Cell[k]) : k \in 1..(pc.stmt - 1)}
      \cup (IF pc.it > 0 THEN Targets(Cur) ELSE {})
BoundAfter == UNION {Targets(Cell[k]) : k \in (pc.stmt + 1)..Len(Cell)}

(* C1: a complete run of Practical 7 writes exactly one file,
   "../test_folium_map.html", through Map.save; nothing else in either
   notebook writes a file and no input file is ever written. *)
C1_OnlyOutputHtml ==
    /\ \A f \in fs : f.path = OutputHtml /\ f.by = "Map.save" /\ f.path \notin InputFiles
    /\ nb = "P2" => fs = {}
    /\ (nb = "P7" /\ status = "done") => Cardinality(fs) = 1
    /\ (nb = "P7" /\ status # "done") => fs = {}

C1_Witness ==
    nb = "P7" /\ status = "done" /\ \E f \in fs : f.path = OutputHtml /\ f.root = env["m"]

(* C2 as stated: every input file is read through gpd.read_file. *)
C2_AllByReadFile == \A r \in reads : r.reader = "gpd.read_file"

(* C2 amended: the zipped shapefile and the GeoPackages are read through
   gpd.read_file and the two csv files through pd.read_csv; a notebook that
   has run to its end has read each of its input files. *)
C2_ReaderByFormat ==
    /\ \A r \in reads :
          /\ r.path \in InputFiles
          /\ r.reader = IF IsCsv(r.path) THEN "pd.read_csv" ELSE "gpd.read_file"
    /\ (nb = "P7" /\ status = "done") =>
          {r.path : r \in reads} =
              {"../data/soton_smkts.gpkg", "../data/soton_fastfood.gpkg",
               "../data/soton_lsoa_distance.gpkg",
               "../data/IMD2019_Index_of_Multiple_Deprivation.csv"}
    /\ (nb = "P2" /\ status = "done") =>
          {r.path : r \in reads} =
              {"zip://../data/cb_2018_us_state_500k.zip", "../data/ne_cities_10m.csv"}

C2_Witness ==
    /\ nb = "P7"
    /\ [path |-> "../data/IMD2019_Index_of_Multiple_Deprivation.csv",
        reader |-> "pd.read_csv"] \in reads
    /\ [path |-> "../data/soton_lsoa_distance.gpkg", reader |-> "gpd.read_file"] \in reads

(* C3 as stated: when a library call raises, the exception is pending at
   the failing statement, the rest of the cell is not executed, and every
   variable assigned by a statement after the failing one has the value it
   had before the cell ran. *)
C3_LaterTargetsAsBeforeCell ==
    status = "error" =>
        /\ raised = [cell |-> pc.cell, stmt |-> pc.stmt, op |-> Cur.op]
        /\ \A v \in BoundAfter : env[v] = envStart[v]

(* C3 amended: when a library call raises, the exception stays pending at
   the failing statement and nothing more is executed; every variable keeps
   the value given by the last statement that completed: a variable bound
   only by the failing statement or by later ones has the value it had
   before the cell ran, and a variable already bound by an earlier statement
   of the cell (or an earlier iteration of the loop) keeps that new object. *)
C3_ErrorStopsCell ==
    status = "error" =>
        /\ raised = [cell |-> pc.cell, stmt |-> pc.stmt, op |-> Cur.op]
        /\ CanRaise(Cur.op)
        /\ ~ENABLED Next
        /\ \A v \in Names \ BoundBefore : env[v] = envStart[v]
        /\ \A v \in BoundBefore :
              /\ env[v] # envStart[v]
              /\ heap[env[v]].madeIn = pc.cell
        /\ \A id \in Ids : heap[id].madeIn <= pc.cell

C3_Witness ==
    /\ nb = "P7" /\ status = "error"
    /\ raised.op = "to_crs" /\ pc.cell = CellNo(P7_LoadSupermarkets)
    /\ envStart["smkt"] = 0 /\ env["smkt"] # 0
    /\ ValOf("smkt").crs = EPSG_BNG

(* C4: execution is synchronous and single-threaded: no statement starts a
   thread, timer, callback or task, so nothing runs beside the statement
   the kernel is executing, and the statements run in textual order: each
   step of the kernel either repeats the loop statement for its next row,
   moves to the next statement of the cell, moves from the last statement
   of a cell to the first of the next cell, or ends the run. *)
InOrder(p, q) ==
    \/ q = [p EXCEPT !.it = p.it + 1]
    \/ /\ p.stmt < Len(Program(nb)[p.cell])
       /\ q = [cell |-> p.cell, stmt |-> p.stmt + 1, it |-> 0]
    \/ /\ p.stmt = Len(Program(nb)[p.cell])
       /\ q = [cell |-> p.cell + 1, stmt |-> 1, it |-> 0]

C4_Sequential ==
    [][ /\ pending' = {}
        /\ pc' # pc => InOrder(pc, pc')
        /\ pc' = pc => status' \in {"done", "error"}
        /\ nb' = nb ]_vars

C4_Witness ==
    /\ nb = "P7" /\ status = "running"
    /\ pc.cell = CellNo(P7_MultipleLayers) /\ pc.stmt = 4
    /\ env["marker"] # 0 /\ heap[env["marker"]].parent = env["m"]
    /\ pending = {}

(* C5 as stated: no cell mutates in place an object that a different cell
   created. *)
C5_NoCrossCellMutation == \A u \in muts : u.madeIn = u.by

(* C5 amended: no cell of Practical 7 changes in place a table (smkt, ff,
   lsoa, imd) that a different cell created: tables are only read or
   rebound to new objects.  The folium objects are changed across cells:
   the "add basemap option" cell adds children to the map of the "changing
   the basemap" cell, ff_gj.add_to(m) re-parents the layer made by the
   conversion cell in the two cells after it, and mc.add_to(m) and
   hm.add_to(m) add a child to the map made by the cell before them. *)
IsTable(o) == o.type \in {"gdf", "df"}

CrossCellPairs ==
    { <<CellNo(P7_AddBasemapOption), CellNo(P7_ChangingBasemap), "Map">>,
      <<CellNo(P7_FreshMap), CellNo(P7_Conversion), "GeoJson">>,
      <<CellNo(P7_MultipleLayers), CellNo(P7_Conversion), "GeoJson">>,
      <<CellNo(P7_MarkerClusters), CellNo(P7_StartBaseMap), "Map">>,
      <<CellNo(P7_HeatMap), CellNo(P7_CleanBasemap), "Map">> }

C5_TablesNotMutatedAcrossCells ==
    [][ /\ \A id \in Ids :
              (nb = "P7" /\ IsTable(heap[id]) /\ heap[id].madeIn # pc.cell)
                  => heap'[id] = heap[id]
        /\ \A u \in muts' :
              u.madeIn # u.by =>
                  /\ nb = "P7"
                  /\ <<u.by, u.madeIn, heap[u.obj].type>> \in CrossCellPairs ]_vars

C5_Witness ==
    /\ nb = "P7" /\ status = "done"
    /\ {<<u.by, u.madeIn, heap[u.obj].type>> : u \in {x \in muts : x.madeIn # x.by}}
          = CrossCellPairs
    /\ ValOf("lsoa").crs = EPSG_WGS84

\* the layers that draw IMD deciles: GeoJson objects whose features carry one
DrawsDeciles(o) ==
    /\ o.type = "GeoJson"
    /\ o.val.features # <<>>
    /\ \A i \in DOMAIN o.val.features : "imd_decile" \in DOMAIN o.val.features[i].properties

DecileOf(o, i) == o.val.features[i].properties.imd_decile

(* C6 as stated: in every cell that draws the IMD deciles on an interactive
   map the fill colour of a region is chosen by library code. *)
C6_ColourChosenByLibrary ==
    \A id \in Ids : DrawsDeciles(heap[id]) => heap[id].val.styledBy = "folium"

(* C6 amended: in the three cells that call folium.Choropleth the fill
   colour of a region is chosen by the library (a 'Reds' class of its
   binning); in the "Colormaps and symbology" cell it is chosen by the
   repository's style_function, and by nothing else. *)
C6_ColourChosenPerCell ==
    \A id \in Ids :
        DrawsDeciles(heap[id]) =>
            LET o == heap[id]
            IN  /\ o.madeIn \in {CellNo(P7_Choropleth), CellNo(P7_ChoroplethHighlight),
                                 CellNo(P7_Symbology), CellNo(P7_Tooltips)}
                /\ o.val.styledBy =
                      IF o.madeIn = CellNo(P7_Symbology) THEN "style_function" ELSE "folium"
                /\ o.val.styledBy = "folium" =>
                      /\ o.parent # 0 /\ heap[o.parent].type = "Choropleth"
                      /\ \A i \in DOMAIN o.val.styles :
                            o.val.styles[i].fillColor \in Range(Reds)
                /\ o.val.styledBy = "style_function" =>
                      /\ o.parent # 0 /\ heap[o.parent].type = "Map"
                      /\ heap[o.parent].madeIn = CellNo(P7_Symbology)
                      /\ \A i \in DOMAIN o.val.styles :
                            o.val.styles[i].fillColor \in Range(colors)

C6_Witness ==
    /\ nb = "P7" /\ status = "done"
    /\ \E id \in Ids : DrawsDeciles(heap[id]) /\ heap[id].val.styledBy = "style_function"
    /\ \E id \in Ids : DrawsDeciles(heap[id]) /\ heap[id].val.styledBy = "folium"

(* C7: every dataset handed to folium, or whose coordinates are, is in
   EPSG:4326 when it is handed over (ff to GeoJson, MarkerCluster and
   HeatMap; smkt to Marker; lsoa to Choropleth and GeoJson), and a table
   that has been reprojected to EPSG:4326 is never bound to another CRS. *)
FoliumData == {"GeoJson", "Marker", "MarkerCluster", "HeatMap"}
Projected == {"smkt", "ff", "lsoa"}

C7_HandedOverInWgs84 ==
    /\ [](\A id \in Ids : heap[id].type \in FoliumData => heap[id].val.crs = EPSG_WGS84)
    /\ [][ \A v \in Projected :
              (env[v] # 0 /\ ValOf(v).crs = EPSG_WGS84)
                  => (env'[v] # 0 /\ heap'[env'[v]].val.crs = EPSG_WGS84) ]_vars

C7_Witness ==
    /\ nb = "P7" /\ status = "done"
    /\ \E id \in Ids : heap[id].type = "Marker" /\ heap[id].val.icon = "green"
    /\ \E id \in Ids : heap[id].type = "HeatMap" /\ heap[id].val.data # <<>>
    /\ \E id \in Ids : DrawsDeciles(heap[id]) /\ heap[id].val.crs = EPSG_WGS84
    /\ \A v \in Projected : ValOf(v).crs = EPSG_WGS84

(* C8: for a feature whose imd_decile is d in 1..10, style_function returns
   exactly fillOpacity 0.7, weight 0, color 'black' and as fillColor the
   d-th of the ten colours of the cell (index d - 1, which is in 0..9). *)
ColourOfDecile(d) ==
    CASE d = 1 -> "#a6cee3" [] d = 2 -> "#1f78b4" [] d = 3 -> "#b2df8a"
      [] d = 4 -> "#33a02c" [] d = 5 -> "#fb9a99" [] d = 6 -> "#e31a1c"
      [] d = 7 -> "#fdbf6f" [] d = 8 -> "#ff7f00" [] d = 9 -> "#cab2d6"
      [] d = 10 -> "#6a3d9a"

C8_StyleFunction ==
    \A id \in Ids :
        (DrawsDeciles(heap[id]) /\ heap[id].val.styledBy = "style_function") =>
            \A i \in DOMAIN heap[id].val.features :
                LET d == DecileOf(heap[id], i)
                IN  /\ d \in 1..10
                    /\ d - 1 \in 0..(Len(colors) - 1)
                    /\ Len(colors) = 10
                    /\ heap[id].val.styles[i] =
                          [fillOpacity |-> 7, weight |-> 0, color |-> "black",
                           fillColor |-> ColourOfDecile(d)]

C8_Witness ==
    \E id \in Ids :
        /\ DrawsDeciles(heap[id]) /\ heap[id].val.styledBy = "style_function"
        /\ \E i \in DOMAIN heap[id].val.features :
              DecileOf(heap[id], i) = 10 /\ heap[id].val.styles[i].fillColor = "#6a3d9a"

(* C9: after the "add basemap option" cell, m is still the map made by the
   "changing the basemap" cell, with its location, zoom and tiles as they
   were made, and its children are its own tile layer followed by exactly
   the two elements the cell added: the 'stamentoner' tile layer and the
   layer control. *)
AfterCell(c) ==
    nb = "P7" /\ pc.cell = CellNo(c) + 1 /\ pc.stmt = 1 /\ pc.it = 0

C9_SameMapTwoMoreChildren ==
    AfterCell(P7_AddBasemapOption) =>
        LET mp == heap[env["m"]]
            ch == mp.children
        IN  /\ mp.type = "Map" /\ mp.madeIn = CellNo(P7_ChangingBasemap)
            /\ Cardinality({id \in Ids : heap[id].type = "Map"}) = 2
            /\ mp.val = [location |-> Southampton, zoom_start |-> 15,
                         tiles |-> "Stamen watercolor", control_scale |-> FALSE]
            /\ Len(ch) = 3
            /\ heap[ch[1]].type = "TileLayer" /\ heap[ch[1]].val.tiles = "Stamen watercolor"
            /\ heap[ch[1]].madeIn = CellNo(P7_ChangingBasemap)
            /\ heap[ch[2]].type = "TileLayer" /\ heap[ch[2]].val.tiles = "stamentoner"
            /\ heap[ch[3]].type = "LayerControl"
            /\ \A k \in {2, 3} : heap[ch[k]].madeIn = CellNo(P7_AddBasemapOption)
                                   /\ heap[ch[k]].parent = env["m"]

C9_Witness ==
    /\ AfterCell(P7_AddBasemapOption) /\ status = "running"
    /\ Len(heap[env["m"]].children) = 3

(* C10: right after the folium.Map statement of a cell that makes a fresh,
   new or clean basemap, m is a map made by that statement: its only child
   is its own tile layer, and no layer, marker or control of any earlier
   map is among its children. *)
AfterMapOf(c) ==
    /\ nb = "P7"
    /\ IF Len(c) = 1
       THEN pc.cell = CellNo(c) + 1 /\ pc.stmt = 1
       ELSE pc.cell = CellNo(c) /\ pc.stmt = 2

FreshCells == {P7_FreshMap, P7_StartBaseMap, P7_CleanBasemap}

C10_FreshMapHasNoLayers ==
    \A c \in FreshCells :
        AfterMapOf(c) =>
            LET mp == heap[env["m"]]
            IN  /\ mp.type = "Map" /\ mp.madeIn = CellNo(c)
                /\ env["m"] = Len(heap)
                /\ Len(mp.children) = 1
                /\ heap[mp.children[1]].type = "TileLayer"
                /\ heap[mp.children[1]].madeIn = CellNo(c)
                /\ \A id \in Ids \ {env["m"]} :
                      heap[id].type = "Map" =>
                          Range(heap[id].children) \cap Range(mp.children) = {}

C10_Witness ==
    /\ AfterMapOf(P7_CleanBasemap) /\ status = "running"
    /\ \E id \in Ids \ {env["m"]} :
          heap[id].type = "Map" /\ env["mc"] \in Range(heap[id].children)

(* C11: lsoa.merge(imd, on='lsoa') is an inner join.  The merged table has a
   row for an LSOA code exactly when the code occurs in the boundary table
   and in the IMD table; every merged row carries the attributes and the
   geometry of the boundary row of its code together with the imd_decile of
   an IMD row of that code; and no code that is only in the IMD table is in
   the merged table. *)
MadeIn(c, type) == {id \in Ids : heap[id].madeIn = c /\ heap[id].type = type}

CodesOf(t) == {t.rows[i].lsoa : i \in 1..Len(t.rows)}

C11_MergeIsInnerJoin ==
    nb = "P7" =>
        \A r \in MadeIn(CellNo(P7_InnerJoin), "gdf") :
        \A l \in MadeIn(CellNo(P7_LoadLsoaImd), "gdf") :
            LET res == heap[r].val
                boundary == heap[l].val
                imd == heap[env["imd"]].val
            IN  /\ CodesOf(res) = CodesOf(boundary) \cap CodesOf(imd)
                /\ CodesOf(res) \cap (CodesOf(imd) \ CodesOf(boundary)) = {}
                /\ res.geom = boundary.geom /\ res.crs = boundary.crs
                /\ Range(res.cols) = Range(boundary.cols) \cup {"imd_decile"}
                /\ \A i \in 1..Len(res.rows) :
                      /\ \E j \in 1..Len(boundary.rows) :
                            \A c \in Range(boundary.cols) :
                                res.rows[i][c] = boundary.rows[j][c]
                      /\ \E k \in 1..Len(imd.rows) :
                            /\ imd.rows[k].lsoa = res.rows[i].lsoa
                            /\ imd.rows[k].imd_decile = res.rows[i].imd_decile

\* two boundaries, one of them with an IMD record: one merged row
C11_Witness ==
    /\ nb = "P7"
    /\ \E r \in MadeIn(CellNo(P7_InnerJoin), "gdf") :
       \E l \in MadeIn(CellNo(P7_LoadLsoaImd), "gdf") :
          /\ Len(heap[l].val.rows) = 2
          /\ Len(heap[env["imd"]].val.rows) = 1
          /\ Len(heap[r].val.rows) = 1
          /\ heap[r].val.rows[1].lsoa = heap[env["imd"]].val.rows[1].lsoa

\* the position of a cell of the GeoPandas practical among its code cells
P2CellNo(c) == CHOOSE i \in 1..Len(Practical2) : Practical2[i] = c

(* C12: cities = gpd.GeoDataFrame(df, geometry=gpd.points_from_xy(df.longitude,
   df.latitude)) has as many rows as df, every column of df with the values
   of df, and exactly one column more, named 'geometry', which is its
   geometry column and holds in row i the point whose x is the longitude and
   whose y is the latitude of row i of df. *)
C12_CitiesIsDfPlusGeometry ==
    nb = "P2" =>
        \A c \in MadeIn(P2CellNo(P2_Cities), "gdf") :
            LET cities == heap[c].val
                df == heap[env["df"]].val
            IN  /\ Len(cities.rows) = Len(df.rows)
                /\ cities.index = df.index
                /\ "geometry" \notin Range(df.cols)
                /\ Range(cities.cols) = Range(df.cols) \cup {"geometry"}
                /\ Len(cities.cols) = Len(df.cols) + 1
                /\ cities.geom = "geometry"
                /\ \A i \in 1..Len(df.rows) :
                      /\ \A col \in Range(df.cols) : cities.rows[i][col] = df.rows[i][col]
                      /\ cities.rows[i].geometry.kind = "Point"
                      /\ cities.rows[i].geometry.xy[1] = df.rows[i].longitude
                      /\ cities.rows[i].geometry.xy[2] = df.rows[i].latitude

\* two cities at different places, longitude and latitude different
C12_Witness ==
    /\ nb = "P2"
    /\ \E c \in MadeIn(P2CellNo(P2_Cities), "gdf") :
          /\ env["cities"] = c
          /\ Len(heap[c].val.rows) = 2
          /\ heap[c].val.rows[1].geometry # heap[c].val.rows[2].geometry
          /\ heap[c].val.rows[1].longitude # heap[c].val.rows[1].latitude

(* C13: gpd.points_from_xy(df.longitude, df.latitude) and the comprehension
   [Point(x, y) for x, y in zip(df.longitude, df.latitude)] give the same
   points: the list the comprehension cell builds has the length of the
   geometry column that points_from_xy gave to cities, and the same point at
   every position. *)
C13_PointsFromXYIsComprehension ==
    nb = "P2" =>
        \A l \in MadeIn(P2CellNo(P2_PointComprehension), "list") :
            LET items == heap[l].val.items
                df == heap[env["df"]].val
                pts == PointsFromXY(Column(df, "longitude"), Column(df, "latitude"))
                geoms == GeometryOf(heap[env["cities"]].val).geoms
            IN  /\ Len(items) = Len(pts)
                /\ \A i \in 1..Len(pts) : items[i] = pts[i]
                /\ items = geoms

\* a list of two different points
C13_Witness ==
    /\ nb = "P2"
    /\ \E l \in MadeIn(P2CellNo(P2_PointComprehension), "list") :
          /\ Len(heap[l].val.items) = 2
          /\ heap[l].val.items[1] # heap[l].val.items[2]
          /\ heap[l].val.shown = heap[l].val.items

(* C14: after test = test.rename(columns={'geometry': 'shape'})
   .set_geometry('shape'), test is a GeoDataFrame whose active geometry
   column is named 'shape': test.geometry has the name 'shape' and the
   geometries of the table as it was made, in the same row order, and the
   columns var1 and var2 have the values they had. *)
C14_RenamedGeometryIsActive ==
    nb = "P2" =>
        \A n \in {id \in Ids : heap[id].madeIn = P2CellNo(P2_RenameGeometry)} :
        \A o \in MadeIn(P2CellNo(P2_TestManual), "gdf") :
            LET new == heap[n].val
                old == heap[o].val
            IN  /\ heap[n].type = "gdf"
                /\ env["test"] = n
                /\ new.geom = "shape"
                /\ Range(new.cols) = {"shape", "var1", "var2"}
                /\ GeometryOf(new).name = "shape"
                /\ GeometryOf(new).geoms = GeometryOf(old).geoms
                /\ new.index = old.index
                /\ Column(new, "var1") = Column(old, "var1")
                /\ Column(new, "var2") = Column(old, "var2")

\* the renamed table is bound to test and holds the two points
C14_Witness ==
    /\ nb = "P2"
    /\ env["test"] # 0
    /\ heap[env["test"]].madeIn = P2CellNo(P2_RenameGeometry)
    /\ GeometryOf(heap[env["test"]].val).geoms = <<Point(1, 1), Point(2, 2)>>

(* C15: gdfSub = gdf[['NAME', 'GEOID', 'ALAND']], a selection of columns
   without the geometry column, is a plain DataFrame with those columns of
   every row of gdf; nc = gdf[gdf['NAME'] == 'North Carolina'] is a
   GeoDataFrame with all columns of gdf, geometry included, and exactly the
   rows of gdf whose NAME is 'North Carolina', in their order and under
   their row labels; and no statement changes gdf itself. *)
NorthCarolinaRows(t) ==
    SelectSeq([i \in 1..Len(t.rows) |-> i], LAMBDA i : t.rows[i].NAME = "North Carolina")

ColumnsGiveDataFrame ==
    \A s \in {id \in Ids : heap[id].madeIn = P2CellNo(P2_SelectColumns)} :
        LET sub == heap[s].val
            gdf == heap[env["gdf"]].val
        IN  /\ heap[s].type = "df"
            /\ sub.geom = ""
            /\ sub.cols = <<"NAME", "GEOID", "ALAND">>
            /\ sub.index = gdf.index
            /\ Len(sub.rows) = Len(gdf.rows)
            /\ \A i \in 1..Len(gdf.rows) :
                  /\ DOMAIN sub.rows[i] = {"NAME", "GEOID", "ALAND"}
                  /\ \A c \in DOMAIN sub.rows[i] : sub.rows[i][c] = gdf.rows[i][c]

RowsGiveGeoDataFrame ==
    \A n \in {id \in Ids : heap[id].madeIn = P2CellNo(P2_SelectRows)} :
        LET nc == heap[n].val
            gdf == heap[env["gdf"]].val
            keep == NorthCarolinaRows(gdf)
        IN  /\ heap[n].type = "gdf"
            /\ nc.cols = gdf.cols
            /\ nc.geom = gdf.geom /\ nc.geom \in Range(nc.cols)
            /\ nc.crs = gdf.crs
            /\ Len(nc.rows) = Len(keep)
            /\ \A k \in 1..Len(keep) :
                  nc.rows[k] = gdf.rows[keep[k]] /\ nc.index[k] = gdf.index[keep[k]]

GdfUnchanged ==
    (nb = "P2" /\ env["gdf"] # 0) =>
        /\ env'["gdf"] = env["gdf"]
        /\ heap'[env["gdf"]] = heap[env["gdf"]]

C15_ColumnsVersusRows ==
    /\ [](nb = "P2" => ColumnsGiveDataFrame /\ RowsGiveGeoDataFrame)
    /\ [][GdfUnchanged]_vars

\* two states read, one of them North Carolina: gdfSub has both, nc has one
C15_Witness ==
    /\ nb = "P2"
    /\ env["gdfSub"] # 0 /\ env["nc"] # 0
    /\ heap[env["gdfSub"]].type = "df"
    /\ heap[env["nc"]].type = "gdf"
    /\ Len(heap[env["gdf"]].val.rows) = 2
    /\ Len(heap[env["gdfSub"]].val.rows) = 2
    /\ Len(heap[env["nc"]].val.rows) = 1
    /\ heap[env["nc"]].val.rows[1].NAME = "North Carolina"

====
